---- MODULE Spec2Model ----
(***************************************************************************)
(* SynAuth client SDK (src/src/synauth/client.py, src/src/synauth/pay.py): *)
(* the blocking wait protocol of SynAuthClient.wait_for_result, get_status,*)
(* the submit call request_action with its convenience methods, the        *)
(* three-phase vault flow execute_api_call and the SynPayClient wrapper,   *)
(* run against a backend whose HTTP responses are inputs.                  *)
(*                                                                         *)
(* A lifecycle is one caller thread.  Every network call a lifecycle       *)
(* makes is appended to calls[t] together with the response it got, so     *)
(* that statements about "the sequence of status fetches" are statements   *)
(* about the state.  time.time() is the variable now, advanced only by     *)
(* Tick: between any two steps of the code an arbitrary amount of wall     *)
(* clock time may pass (network latency, scheduling), and time.sleep(d)    *)
(* returns no earlier than d after it was called.                          *)
(*                                                                         *)
(* Spec explores the flows of one caller over every timeout, poll          *)
(* interval and backend answer; SpecSubmit the payloads of the submitting  *)
(* methods over every combination of optional arguments; SpecPay the       *)
(* methods of SynPayClient; SpecConc two callers interleaved on one        *)
(* client.  They share the actions and differ in the arguments callers     *)
(* use (inputs) and in the methods called.                                 *)
(***************************************************************************)
EXTENDS Integers, Sequences, FiniteSets, TLC

\* ------------------------------------------------------------- bounds
MaxTimeout == 3
MaxPoll == 2
MaxClock == 4
MaxFetches == 4
MaxGets == 2
MaxParams == 3      \* keys of a parameter mapping

\* ------------------------------------------------------------- domains
Lifecycles == {1, 2}
Ids == {"act_1", "act_2"}
Timeouts == (0 - 1)..MaxTimeout
PollIntervals == 0..MaxPoll

\* The `status` field of a backend JSON body.  Absent is a body without the
\* key (dict.get gives None, dict[...] raises KeyError); "unknown" is any
\* string outside the four documented statuses.
Absent == "<absent>"
Terminal == {"approved", "denied", "expired"}
Statuses == {"pending"} \cup Terminal \cup {"unknown"}
NoReason == "<none>"
Reasons == {"policy", "human"}
NoId == "<none>"

HttpOk == 200
HttpRateLimited == 429
HttpServerError == 500
HttpCodes == {HttpOk, HttpRateLimited, HttpServerError}
\* requests' Response.ok is false exactly for the 4xx and 5xx codes: a 304
\* is "ok" although it is not 2xx.
HttpNotModified == 304
HttpClientError == 400
AllHttpCodes == HttpCodes \cup {HttpNotModified}

\* The raw body of a response, as resp.json() and resp.text see it: a JSON
\* object with or without a `detail` field, a JSON value that is not an
\* object (list, string, number, null), or text that is not JSON.
NoDetail == "<none>"
RawObject == [shape |-> "object", detail |-> NoDetail, text |-> "{...}"]
RawObjectDetail ==
    [shape |-> "object", detail |-> "forbidden", text |-> "{detail: forbidden}"]
RawNonObject == [shape |-> "non_object", detail |-> NoDetail, text |-> "[503]"]
RawText == [shape |-> "text", detail |-> NoDetail, text |-> "Bad Gateway"]
RawBodies == {RawObject, RawObjectDetail, RawNonObject, RawText}

\* What the backend may answer to POST /actions and GET /actions/{id}.  A
\* deny_reason accompanies only a denial; the body of a non-2xx response
\* carries no action fields.  A 2xx answer to POST /actions always carries
\* the id of the created action (the id is chosen with the response).
Bodies ==
    [status : (Statuses \ {"denied"}) \cup {Absent}, deny_reason : {NoReason}]
        \cup [status : {"denied"}, deny_reason : Reasons \cup {NoReason}]
ErrorBody == [status |-> Absent, deny_reason |-> NoReason]
Responses ==
    [http : {HttpOk}, body : Bodies, raw : {RawObject}]
        \cup [http : {HttpRateLimited}, body : {ErrorBody}, raw : {RawText}]
        \cup [http : {HttpServerError}, body : {ErrorBody}, raw : RawBodies]
\* POST /vault/execute/{id} answers with the proxied API response, which
\* has no action fields.
ExecuteResponses ==
    {r \in Responses : r.body = ErrorBody}
\* Every response _request can meet: any code with any raw body.  A body
\* that is not a JSON object has no action fields.
AllResponses ==
    Responses \cup [http : AllHttpCodes, body : {ErrorBody}, raw : RawBodies]

\* Source lines of the network calls (the call sites of _request).
SiteSubmit == "client.py:168"
SiteWaitLoop == "client.py:183"
SiteWaitFinal == "client.py:187"
SiteVaultCreate == "client.py:316"
SiteVaultLoop == "client.py:328"
SiteVaultExecute == "client.py:343"
SiteGetStatus == "client.py:172"

VARIABLES
    now,            \* time.time()
    pc,             \* pc[t]: where lifecycle t stands in the code
    op,             \* op[t]: the client method t is running or ran last
    timeout,        \* timeout[t]: argument `timeout`
    poll_interval,  \* poll_interval[t]: argument `poll_interval`
    request_id,     \* request_id[t]: argument / local `request_id`
    start,          \* start[t]: local `start`
    wake,           \* wake[t]: earliest return time of the running time.sleep
    result,         \* result[t]: local `result` of execute_api_call
    outcome,        \* outcome[t]: what the method returned or raised
    timedOutAt,     \* timedOutAt[t]: Len(calls[t]) when the loop's time test failed
    calls,          \* calls[t]: the network calls of t, with their responses
    client,         \* the attributes of the SynAuthClient instance (self.*)
    inputs,         \* the arguments callers pass in this run
    facade,         \* facade[t]: the class whose method t called
    args,           \* args[t]: the arguments of the last submission of t
    sent,           \* sent[t]: the JSON payload of the last POST /actions of t
    params,         \* params[t]: the parameter mapping t holds, in insertion order
    hashes          \* hashes[t]: the content hashes t computed, oldest first

vars == <<now, pc, op, timeout, poll_interval, request_id, start, wake,
          result, outcome, timedOutAt, calls, client, inputs, facade, args, sent,
          params, hashes>>

\* What a submission records, and what no method of the clients assigns.
passed == <<facade, args, sent>>
fixed == <<client, inputs, params, hashes>>

\* ------------------------------------------------------------- outcomes
NotTimedOut == 0 - 1
NoSnapshot == [status |-> Absent, deny_reason |-> NoReason]
Running ==
    [kind |-> "running", exc |-> "none", value |-> NoSnapshot,
     request_id |-> NoId, status_code |-> 0, detail |-> NoDetail]
Return(snapshot, id) ==
    [kind |-> "return", exc |-> "none", value |-> snapshot,
     request_id |-> id, status_code |-> 0, detail |-> NoDetail]
Raise(e, snapshot, id, code) ==
    [kind |-> "raise", exc |-> e, value |-> snapshot,
     request_id |-> id, status_code |-> code, detail |-> NoDetail]
\* SynAuthAPIError.__init__ (lines 54-58): status_code and detail
RaiseAPI(e, code, detail) ==
    [kind |-> "raise", exc |-> e, value |-> NoSnapshot,
     request_id |-> NoId, status_code |-> code, detail |-> detail]

\* lines 64-65 and 116: RateLimitError(response=resp) has the default detail
RateLimitDetail == "Rate limit exceeded"
RateLimitError(resp) == RaiseAPI("RateLimitError", HttpRateLimited, RateLimitDetail)

\* lines 119-122, for a body resp.json() parses to an object (dict.get with
\* resp.text as the default) or does not parse (ValueError, caught)
ErrorDetail(resp) ==
    IF resp.raw.shape = "object" /\ resp.raw.detail /= NoDetail
        THEN resp.raw.detail
    ELSE resp.raw.text
SynAuthAPIError(resp) == RaiseAPI("SynAuthAPIError", resp.http, ErrorDetail(resp))

\* line 120: resp.json().get on a JSON value that is no object raises
\* AttributeError, which `except (ValueError, KeyError)` does not catch
DetailLookupFails(resp) == resp.raw.shape = "non_object"

\* line 118: resp.ok
ok(resp) == resp.http < HttpClientError

\* _request (lines 113-125): 429 raises RateLimitError, any other response
\* that is not ok raises SynAuthAPIError unless reading its detail fails,
\* an ok response returns resp.json(), which raises ValueError
\* (JSONDecodeError) for a body that is not JSON.
_request(resp, id) ==
    IF resp.http = HttpRateLimited THEN RateLimitError(resp)
    ELSE IF ~ok(resp) THEN
        IF DetailLookupFails(resp) THEN Raise("AttributeError", NoSnapshot, NoId, 0)
        ELSE SynAuthAPIError(resp)
    ELSE IF resp.raw.shape = "text" THEN Raise("ValueError", NoSnapshot, NoId, 0)
    ELSE Return(resp.body, id)

\* One entry of calls[t].
Call(site, path, id, resp) ==
    [site |-> site, path |-> path, id |-> id, http |-> resp.http,
     status |-> resp.body.status, deny_reason |-> resp.body.deny_reason,
     raw |-> resp.raw]
Snapshot(c) == [status |-> c.status, deny_reason |-> c.deny_reason]
\* The response a logged call was answered with.
RespOf(c) == [http |-> c.http, body |-> Snapshot(c), raw |-> c.raw]

GetStatus == "GET /actions/{id}"
PostActions == "POST /actions"
PostExecute == "POST /vault/execute/{id}"

Fetches(t) == SelectSeq(calls[t], LAMBDA c : c.path = GetStatus)
CallsAt(t, site) == SelectSeq(calls[t], LAMBDA c : c.site = site)

\* ------------------------------------------------------------- arguments
\* Argument values are written as the text of their Python literal.
None == "None"                  \* an argument left at its default None
Null == "null"                  \* JSON null
\* json=payload: how requests encodes a value
Json(v) ==
    CASE v = None -> Null
      [] v = "True" -> "true"
      [] v = "False" -> "false"
      [] OTHER -> v
\* Python truthiness (`if description:`), for the values used here
Truthy(v) == v \notin {None, "", "0", "{}", "False"}

\* The keys of a POST /actions body; those of the nested metadata mapping
\* of execute_api_call are written metadata.<key>.
RequiredKeys == {"action_type", "title", "risk_level", "reversible",
                 "expires_in_seconds"}
OptionalKeys == {"description", "amount", "currency", "recipient", "metadata",
                 "callback_url"}
VaultKeys == {"metadata.vault_execute", "metadata.service_name",
              "metadata.method", "metadata.url", "metadata.headers",
              "metadata.body"}
Keys == RequiredKeys \cup OptionalKeys \cup VaultKeys
\* A payload gives every key its JSON value, or Absent when the key is not
\* in the payload.
NoPayload == [k \in Keys |-> Absent]

\* request_action's signature (lines 129-142) with its defaults
Defaults ==
    [action_type |-> "custom", title |-> "Deploy", description |-> None,
     risk_level |-> "medium", reversible |-> "True", amount |-> None,
     currency |-> "USD", recipient |-> None, metadata |-> None,
     expires_in_seconds |-> "300", callback_url |-> None]
RequestArgs ==
    [action_type : {"custom"}, title : {"Deploy"},
     description : {None, "", "text"}, risk_level : {"medium"},
     reversible : {"True"}, amount : {None, "0", "25"},
     currency : {"USD", "EUR"}, recipient : {None, "", "bob"},
     metadata : {None, "{}", "{k: v}"}, expires_in_seconds : {"300"},
     callback_url : {None, "", "https://cb"}]

\* Faulty variant of Included: every key of the signature is written,
\* whether or not its argument was supplied.
Included_unconditionally(a, k) == k \in RequiredKeys \cup OptionalKeys

\* Faulty variant of Included: risk_level is left to the backend's default.
Included_withoutRiskLevel(a, k) ==
    CASE k = "risk_level" -> FALSE
      [] k \in RequiredKeys -> TRUE
      [] k \in {"amount", "currency"} -> a.amount /= None
      [] k \in {"description", "recipient", "metadata", "callback_url"} ->
            Truthy(a[k])
      [] OTHER -> FALSE

\* Faulty variant of Included: a currency the caller passed is sent even
\* without an amount.
Included_currencyWhenPassed(a, k) ==
    CASE k \in RequiredKeys -> TRUE
      [] k = "amount" -> a.amount /= None
      [] k = "currency" -> a.amount /= None \/ a.currency /= Defaults.currency
      [] k \in {"description", "recipient", "metadata", "callback_url"} ->
            Truthy(a[k])
      [] OTHER -> FALSE

\* lines 149-166: which keys request_action puts in the payload
Included(a, k) ==
    CASE k \in RequiredKeys -> TRUE
      [] k \in {"amount", "currency"} -> a.amount /= None
      [] k \in {"description", "recipient", "metadata", "callback_url"} ->
            Truthy(a[k])
      [] OTHER -> FALSE

\* lines 149-168: the payload request_action posts
RequestActionPayload(a) ==
    [k \in Keys |-> IF Included(a, k) THEN Json(a[k]) ELSE Absent]

\* execute_api_call's signature (lines 256-266), without timeout and
\* poll_interval
VaultDefaults ==
    [service_name |-> "github", method |-> "GET", url |-> "https://api",
     headers |-> None, body |-> None, description |-> None]
VaultArgs ==
    [service_name : {"github"}, method : {"GET"}, url : {"https://api"},
     headers : {None, "{}", "{h: v}"}, body : {None, "", "{q: 1}"},
     description : {None, "", "text"}]

\* lines 302-315: the payload execute_api_call posts
ExecuteApiCallPayload(a) ==
    [k \in Keys |->
        CASE k = "action_type" -> "data_access"
          [] k = "title" ->
                IF Truthy(a.description) THEN Json(a.description)
                ELSE "API call: <method> <url>"
          [] k = "description" -> "Service: <service_name> | <method> <url>"
          [] k = "risk_level" -> "medium"
          [] k = "metadata" -> "{vault_execute, ...}"
          [] k = "metadata.vault_execute" -> Json("True")
          [] k = "metadata.service_name" -> Json(a.service_name)
          [] k = "metadata.method" -> Json(a.method)
          [] k = "metadata.url" -> Json(a.url)
          [] k = "metadata.headers" ->
                IF Truthy(a.headers) THEN Json(a.headers) ELSE "{}"
          [] k = "metadata.body" -> Json(a.body)
          [] OTHER -> Absent]

\* lines 101-105: the attributes __init__ sets
Client ==
    [api_key |-> "aa_key", base_url |-> "https://synauth.fly.dev",
     session_headers |-> [name \in {"X-API-Key"} |-> "aa_key"]]
NoArgs == [none |-> None]

\* The arguments callers use when the flows are explored: every timeout,
\* poll interval and id, and calls that leave the optional arguments unset.
FlowInputs ==
    [ids |-> [t \in Lifecycles |-> Ids], timeouts |-> Timeouts,
     poll_intervals |-> PollIntervals, request_args |-> {Defaults},
     vault_args |-> {VaultDefaults}]

\* ------------------------------------------------------------- Init
\* held[t] is the parameter mapping lifecycle t has built before the run.
InitHolding(active, given, held) ==
    /\ now = 0
    /\ pc = [t \in Lifecycles |-> IF t \in active THEN "idle" ELSE "off"]
    /\ op = [t \in Lifecycles |-> "none"]
    /\ timeout = [t \in Lifecycles |-> 0]
    /\ poll_interval = [t \in Lifecycles |-> 0]
    /\ request_id = [t \in Lifecycles |-> NoId]
    /\ start = [t \in Lifecycles |-> 0]
    /\ wake = [t \in Lifecycles |-> 0]
    /\ result = [t \in Lifecycles |-> NoSnapshot]
    /\ outcome = [t \in Lifecycles |-> Running]
    /\ timedOutAt = [t \in Lifecycles |-> NotTimedOut]
    /\ calls = [t \in Lifecycles |-> <<>>]
    /\ client = Client
    /\ inputs = given
    /\ facade = [t \in Lifecycles |-> "SynAuthClient"]
    /\ args = [t \in Lifecycles |-> NoArgs]
    /\ sent = [t \in Lifecycles |-> NoPayload]
    /\ params = held
    /\ hashes = [t \in Lifecycles |-> <<>>]

InitFor(active, given) ==
    InitHolding(active, given, [t \in Lifecycles |-> <<>>])

InitWith(active) == InitFor(active, FlowInputs)

Init == InitWith({1})

\* ------------------------------------------------------------- clock
\* The clock is read only by a running method: time that passes while every
\* lifecycle is between calls changes nothing any of them can observe.
InMethod(t) == pc[t] \notin {"off", "idle", "done"}

Tick ==
    /\ now < MaxClock
    /\ \E t \in Lifecycles : InMethod(t)
    /\ now' = now + 1
    /\ UNCHANGED <<pc, op, timeout, poll_interval, request_id, start, wake,
                   result, outcome, timedOutAt, calls>>
    /\ UNCHANGED <<fixed, passed>>

\* ------------------------------------------------------------- request_action
\* POST /actions; returns the created snapshot or raises what _request raises.
\* lines 149-168 run by lifecycle t as method `name` of class `cls` that was
\* called with `given`: request_action(**a)
Submit(t, cls, name, given, a) ==
    /\ \E resp \in Responses, id \in inputs.ids[t] :
        /\ calls' = [calls EXCEPT ![t] = Append(@, Call(SiteSubmit, PostActions, id, resp))]
        /\ outcome' = [outcome EXCEPT ![t] = _request(resp, id)]
        /\ request_id' = [request_id EXCEPT ![t] = IF ok(resp) THEN id ELSE NoId]
    /\ op' = [op EXCEPT ![t] = name]
    /\ pc' = [pc EXCEPT ![t] = "done"]
    /\ facade' = [facade EXCEPT ![t] = cls]
    /\ args' = [args EXCEPT ![t] = given]
    /\ sent' = [sent EXCEPT ![t] = RequestActionPayload(a)]
    /\ UNCHANGED <<now, timeout, poll_interval, start, wake, result, timedOutAt>>
    /\ UNCHANGED fixed

request_action(t) ==
    /\ pc[t] = "idle"
    /\ \E a \in inputs.request_args :
        Submit(t, "SynAuthClient", "request_action", a, a)

\* ------------------------------------------------------------- convenience methods
\* A keyword the caller did not pass in **kwargs.
NotPassed == "<not passed>"
\* **kwargs of a helper: the keywords of request_action a caller may add
Kwargs ==
    [risk_level : {NotPassed, "high"}, action_type : {NotPassed, "custom"},
     reversible : {NotPassed, "True"}, recipient : {NotPassed, "eve"},
     currency : {NotPassed, "EUR"}, metadata : {NotPassed, "{k: v}"}]
NoKwargs == [k \in DOMAIN Defaults |-> NotPassed]
\* The named parameters of the helpers: the text one (preview, description,
\* content_preview, reason), the amount, and the party (recipient, merchant)
Positional == [description : {None, "text"}, amount : {None, "25"}, party : {"bob"}]

\* kwargs.pop(k, default)
Pop(kw, k, default) == IF kw[k] /= NotPassed THEN kw[k] ELSE default
Popped(kw, k) == [kw EXCEPT ![k] = NotPassed]
AllKwargs(kw) == [k \in DOMAIN Defaults |-> IF k \in DOMAIN kw THEN kw[k] ELSE NotPassed]

\* Faulty variant of request_contract: reversible is left to **kwargs.
request_contract_reversibleByKwargs(p, kw) ==
    [explicit |-> [action_type |-> "legal", title |-> "<title>",
                   description |-> p.description,
                   risk_level |-> Pop(kw, "risk_level", "critical")],
     kwargs |-> Popped(kw, "risk_level")]

\* lines 347-404: the keywords each helper passes to request_action
\* explicitly, and the **kwargs it passes on
request_email(p, kw) ==
    [explicit |-> [action_type |-> "communication", title |-> "Send email: <subject>",
                   description |-> p.description, recipient |-> p.party,
                   risk_level |-> Pop(kw, "risk_level", "low")],
     kwargs |-> Popped(kw, "risk_level")]
request_purchase(p, kw) ==
    [explicit |-> [action_type |-> "purchase", title |-> "Purchase from <merchant>",
                   description |-> p.description, amount |-> p.amount,
                   recipient |-> p.party,
                   risk_level |-> Pop(kw, "risk_level", "medium")],
     kwargs |-> Popped(kw, "risk_level")]
request_booking(p, kw) ==
    [explicit |-> [action_type |-> "scheduling", title |-> "<title>",
                   description |-> p.description, amount |-> p.amount,
                   risk_level |-> Pop(kw, "risk_level", "low")],
     kwargs |-> Popped(kw, "risk_level")]
request_post(p, kw) ==
    [explicit |-> [action_type |-> "social", title |-> "Post to <platform>",
                   description |-> p.description,
                   risk_level |-> Pop(kw, "risk_level", "medium")],
     kwargs |-> Popped(kw, "risk_level")]
request_data_access(p, kw) ==
    [explicit |-> [action_type |-> "data_access", title |-> "Access: <resource>",
                   description |-> p.description,
                   risk_level |-> Pop(kw, "risk_level", "high")],
     kwargs |-> Popped(kw, "risk_level")]
request_contract(p, kw) ==
    [explicit |-> [action_type |-> "legal", title |-> "<title>",
                   description |-> p.description, reversible |-> "False",
                   risk_level |-> Pop(kw, "risk_level", "critical")],
     kwargs |-> Popped(kw, "risk_level")]

Helpers == {"request_email", "request_purchase", "request_booking",
            "request_post", "request_data_access", "request_contract"}
HelperCall(h, p, kw) ==
    CASE h = "request_email" -> request_email(p, kw)
      [] h = "request_purchase" -> request_purchase(p, kw)
      [] h = "request_booking" -> request_booking(p, kw)
      [] h = "request_post" -> request_post(p, kw)
      [] h = "request_data_access" -> request_data_access(p, kw)
      [] h = "request_contract" -> request_contract(p, kw)

\* self.request_action(k1=..., ..., **kwargs): a keyword given both
\* explicitly and in **kwargs is a TypeError, raised before request_action
\* runs
DuplicateKeyword(call) ==
    \E k \in DOMAIN call.explicit : call.kwargs[k] /= NotPassed
\* otherwise each parameter takes its explicit value, else the one in
\* **kwargs, else its default
Bind(call) ==
    [k \in DOMAIN Defaults |->
        IF k \in DOMAIN call.explicit THEN call.explicit[k]
        ELSE IF call.kwargs[k] /= NotPassed THEN call.kwargs[k]
        ELSE Defaults[k]]

\* A call that fails before any network call is made.
Fail(t, cls, name, given, e) ==
    /\ outcome' = [outcome EXCEPT ![t] = Raise(e, NoSnapshot, NoId, 0)]
    /\ op' = [op EXCEPT ![t] = name]
    /\ pc' = [pc EXCEPT ![t] = "done"]
    /\ facade' = [facade EXCEPT ![t] = cls]
    /\ args' = [args EXCEPT ![t] = given]
    /\ UNCHANGED <<now, timeout, poll_interval, request_id, start, wake, result,
                   timedOutAt, calls, sent>>
    /\ UNCHANGED fixed

\* lines 347-404: one call of a convenience method
convenience(t) ==
    /\ pc[t] = "idle"
    /\ \E h \in Helpers, p \in Positional, kw \in Kwargs :
        LET call == HelperCall(h, p, AllKwargs(kw))
            given == [p |-> p, kwargs |-> kw]
        IN  IF DuplicateKeyword(call)
                THEN Fail(t, "SynAuthClient", h, given, "TypeError")
            ELSE Submit(t, "SynAuthClient", h, given, Bind(call))

\* ------------------------------------------------------------- SynPayClient
PaymentArgs ==
    [amount : {"0", "25"}, merchant : {"bob"}, description : {"", "text"},
     currency : {"USD", "EUR"}, metadata : {None, "{k: v}"}]

\* pay.py lines 46-52: request_payment forwards to request_purchase
request_payment(a) ==
    request_purchase(
        [description |-> a.description, amount |-> a.amount, party |-> a.merchant],
        [NoKwargs EXCEPT !.currency = a.currency, !.metadata = a.metadata])

\* pay.py lines 34-52: one call of SynPayClient.request_payment
pay_request_payment(t) ==
    /\ pc[t] = "idle"
    /\ \E a \in PaymentArgs :
        LET call == request_payment(a)
        IN  IF DuplicateKeyword(call)
                THEN Fail(t, "SynPayClient", "request_payment", a, "TypeError")
            ELSE Submit(t, "SynPayClient", "request_payment", a, Bind(call))

\* ------------------------------------------------------------- get_status
\* Faulty variant of GetStatusResult: a second call is answered from what
\* the previous call on that id got.
GetStatusResult_cached(t, resp, id) ==
    IF calls[t] /= <<>> /\ calls[t][Len(calls[t])].id = id
        THEN _request(RespOf(calls[t][Len(calls[t])]), id)
    ELSE _request(resp, id)

\* line 172: get_status returns or raises what _request does with the
\* response of this call's GET
GetStatusResult(t, resp, id) == _request(resp, id)

\* lines 170-172 run by lifecycle t for `id`
GetStatusCall(t, id) ==
    /\ \E resp \in AllResponses :
        /\ calls' = [calls EXCEPT ![t] =
                        Append(@, Call(SiteGetStatus, GetStatus, id, resp))]
        /\ outcome' = [outcome EXCEPT ![t] = GetStatusResult(t, resp, id)]
    /\ request_id' = [request_id EXCEPT ![t] = id]
    /\ op' = [op EXCEPT ![t] = "get_status"]
    /\ pc' = [pc EXCEPT ![t] = "done"]
    /\ UNCHANGED <<now, timeout, poll_interval, start, wake, result, timedOutAt>>
    /\ UNCHANGED fixed

\* lines 170-172, called on its own, up to MaxGets times in a row on the
\* same id
get_status(t) ==
    /\ Len(calls[t]) < MaxGets
    /\ \E id \in inputs.ids[t] :
        /\ \/ pc[t] = "idle"
           \/ pc[t] = "done" /\ op[t] = "get_status" /\ id = request_id[t]
        /\ GetStatusCall(t, id)
    /\ UNCHANGED passed

\* pay.py line 56: the argument SynPayClient.get_status passes on
pay_get_status_forward(a) == a.request_id

\* pay.py lines 54-56: SynPayClient.get_status, up to MaxGets times in a row
\* on the same id
pay_get_status(t) ==
    /\ Len(calls[t]) < MaxGets
    /\ \E a \in [request_id : inputs.ids[t]] :
        /\ \/ pc[t] = "idle"
           \/ pc[t] = "done" /\ op[t] = "get_status" /\ a.request_id = request_id[t]
        /\ GetStatusCall(t, pay_get_status_forward(a))
        /\ args' = [args EXCEPT ![t] = a]
    /\ facade' = [facade EXCEPT ![t] = "SynPayClient"]
    /\ UNCHANGED sent

\* ------------------------------------------------------------- wait_for_result
\* Faulty variant of TargetId: the id is kept in one slot of the client,
\* which the first lifecycle's id occupies once it has one.
TargetId_sharedSlot(t) ==
    IF request_id[1] /= NoId THEN request_id[1] ELSE request_id[t]

\* lines 183, 187, 328, 343: the id put in the path of a status fetch or of
\* the execute call is the caller's own `request_id`, an argument or local
\* of the running method
TargetId(t) == request_id[t]

\* The caller holds an id: one it was given, or the one request_action
\* just returned to it.
CallerHoldsId(t, id) ==
    \/ pc[t] = "idle"
    \/ /\ pc[t] = "done"
       /\ op[t] = "request_action"
       /\ outcome[t].kind = "return"
       /\ id = request_id[t]

\* lines 174-181: wait_for_result(id, tmo, pi) is entered by lifecycle t;
\* start = time.time()
WaitStart(t, id, tmo, pi) ==
    /\ request_id' = [request_id EXCEPT ![t] = id]
    /\ timeout' = [timeout EXCEPT ![t] = tmo]
    /\ poll_interval' = [poll_interval EXCEPT ![t] = pi]
    /\ op' = [op EXCEPT ![t] = "wait_for_result"]
    /\ pc' = [pc EXCEPT ![t] = "wait_test"]
    /\ start' = [start EXCEPT ![t] = now]
    /\ outcome' = [outcome EXCEPT ![t] = Running]
    /\ UNCHANGED <<now, wake, result, timedOutAt, calls>>
    /\ UNCHANGED fixed

\* line 181: start = time.time()
wait_for_result_start(t) ==
    /\ \E id \in inputs.ids[t], tmo \in inputs.timeouts,
          pi \in inputs.poll_intervals :
        /\ CallerHoldsId(t, id)
        /\ WaitStart(t, id, tmo, pi)
    /\ UNCHANGED passed

\* Faulty variant of pay_wait_for_result_forward: timeout and poll_interval
\* change places.
pay_wait_for_result_forward_swapped(a) ==
    <<a.request_id, a.poll_interval, a.timeout>>

\* pay.py line 71: the positional arguments SynPayClient.wait_for_result
\* passes on
pay_wait_for_result_forward(a) == <<a.request_id, a.timeout, a.poll_interval>>

\* pay.py lines 58-71: SynPayClient.wait_for_result enters
\* SynAuthClient.wait_for_result
pay_wait_for_result(t) ==
    /\ pc[t] = "idle"
    /\ \E a \in [request_id : inputs.ids[t], timeout : inputs.timeouts,
                  poll_interval : inputs.poll_intervals] :
        LET f == pay_wait_for_result_forward(a)
        IN  /\ WaitStart(t, f[1], f[2], f[3])
            /\ args' = [args EXCEPT ![t] = a]
    /\ facade' = [facade EXCEPT ![t] = "SynPayClient"]
    /\ UNCHANGED sent

\* Faulty variant of WithinTimeout: the loop is entered when no time has
\* passed, also with timeout 0.
WithinTimeout_inclusive(t) == now - start[t] <= timeout[t]

\* Faulty variant of WithinTimeout: the time test always passes.
WithinTimeout_always(t) == TRUE

\* line 182 / 327: time.time() - start < timeout
WithinTimeout(t) == now - start[t] < timeout[t]

\* Faulty variant of IsResolved: only an approval ends the polling.
IsResolved_approvedOnly(snapshot) == snapshot.status = "approved"

\* line 184: status["status"] != "pending"
IsResolved(snapshot) == snapshot.status /= "pending"

\* line 182: the loop test
wait_for_result_test(t) ==
    /\ pc[t] = "wait_test"
    /\ pc' = [pc EXCEPT ![t] = IF WithinTimeout(t) THEN "wait_fetch" ELSE "wait_final"]
    /\ timedOutAt' = [timedOutAt EXCEPT ![t] =
                         IF WithinTimeout(t) THEN NotTimedOut ELSE Len(calls[t])]
    /\ UNCHANGED <<now, op, timeout, poll_interval, request_id, start, wake,
                   result, outcome, calls>>
    /\ UNCHANGED <<fixed, passed>>

\* Faulty variant of WaitLoopBody: a failed fetch is swallowed and the loop
\* polls again.
WaitLoopBody_retriesOnError(t, resp) ==
    IF ~ok(resp) THEN Running
    ELSE IF resp.body.status = Absent
        THEN Raise("KeyError", resp.body, request_id[t], 0)
    ELSE IF resp.body.status /= "pending" THEN Return(resp.body, request_id[t])
    ELSE Running

\* Faulty variant of WaitLoopBody: the first snapshot fetched is returned,
\* 'pending' or not.
WaitLoopBody_returnsFirst(t, resp) ==
    IF ~ok(resp) THEN _request(resp, request_id[t])
    ELSE IF resp.body.status = Absent
        THEN Raise("KeyError", resp.body, request_id[t], 0)
    ELSE Return(resp.body, request_id[t])

\* Faulty variant of WaitLoopBody: an expired action does not end the loop.
WaitLoopBody_pollsPastExpired(t, resp) ==
    IF ~ok(resp) THEN _request(resp, request_id[t])
    ELSE IF resp.body.status = Absent
        THEN Raise("KeyError", resp.body, request_id[t], 0)
    ELSE IF resp.body.status \notin {"pending", "expired"}
        THEN Return(resp.body, request_id[t])
    ELSE Running

\* lines 183-186: what the loop body does with the response of get_status
WaitLoopBody(t, resp) ==
    IF ~ok(resp) THEN _request(resp, request_id[t])
    ELSE IF resp.body.status = Absent
        THEN Raise("KeyError", resp.body, request_id[t], 0)
    ELSE IF IsResolved(resp.body) THEN Return(resp.body, request_id[t])
    ELSE Running

\* lines 183-186: one fetch of the loop
wait_for_result_fetch(t) ==
    /\ pc[t] = "wait_fetch"
    /\ Len(CallsAt(t, SiteWaitLoop)) < MaxFetches
    /\ \E resp \in Responses :
        /\ calls' = [calls EXCEPT ![t] =
                        Append(@, Call(SiteWaitLoop, GetStatus, TargetId(t), resp))]
        /\ outcome' = [outcome EXCEPT ![t] = WaitLoopBody(t, resp)]
        /\ pc' = [pc EXCEPT ![t] =
                     IF WaitLoopBody(t, resp).kind = "running" THEN "wait_sleep" ELSE "done"]
    /\ wake' = [wake EXCEPT ![t] = now + poll_interval[t]]
    /\ UNCHANGED <<now, op, timeout, poll_interval, request_id, start,
                   result, timedOutAt>>
    /\ UNCHANGED <<fixed, passed>>

\* line 186: time.sleep(poll_interval) returns
wait_for_result_sleep(t) ==
    /\ pc[t] = "wait_sleep"
    /\ now >= wake[t]
    /\ pc' = [pc EXCEPT ![t] = "wait_test"]
    /\ UNCHANGED <<now, op, timeout, poll_interval, request_id, start, wake,
                   result, outcome, timedOutAt, calls>>
    /\ UNCHANGED <<fixed, passed>>

\* Faulty variant of WaitFinal: a result that is still pending after the timeout
\* is reported as an exception.
WaitFinal_raisesOnPending(t, resp) ==
    IF ok(resp) /\ resp.body.status = "pending"
        THEN Raise("TimeoutError", resp.body, request_id[t], 0)
    ELSE _request(resp, request_id[t])

\* line 187: return self.get_status(request_id)
WaitFinal(t, resp) == _request(resp, request_id[t])

wait_for_result_final(t) ==
    /\ pc[t] = "wait_final"
    /\ \E resp \in Responses :
        /\ calls' = [calls EXCEPT ![t] =
                        Append(@, Call(SiteWaitFinal, GetStatus, TargetId(t), resp))]
        /\ outcome' = [outcome EXCEPT ![t] = WaitFinal(t, resp)]
    /\ pc' = [pc EXCEPT ![t] = "done"]
    /\ UNCHANGED <<now, op, timeout, poll_interval, request_id, start, wake,
                   result, timedOutAt>>
    /\ UNCHANGED <<fixed, passed>>

\* ------------------------------------------------------------- execute_api_call
\* Faulty variant of IsDenied: a denial is not recognised.
IsDenied_never(snapshot) == FALSE

\* line 319 / 335: result.get("status") == "denied"
IsDenied(snapshot) == snapshot.status = "denied"

\* Faulty variant of EntersPolling: everything short of an approval is polled.
EntersPolling_unlessApproved(snapshot) == snapshot.status /= "approved"

\* line 325: result.get("status") == "pending"
EntersPolling(snapshot) == snapshot.status = "pending"

\* Faulty variant of ActionDeniedError: the deny_reason is dropped.
ActionDeniedError_noReason(id, snapshot) ==
    Raise("ActionDeniedError", [snapshot EXCEPT !.deny_reason = NoReason], id, 0)

\* line 320 / 336: ActionDeniedError(request_id, result.get("deny_reason"))
ActionDeniedError(id, snapshot) == Raise("ActionDeniedError", snapshot, id, 0)

\* Faulty variant of CheckStatus: the last test (lines 337-340) is missing.
CheckStatus_noUnexpected(snapshot, id) ==
    IF snapshot.status = "expired" THEN Raise("ActionExpiredError", NoSnapshot, id, 0)
    ELSE IF snapshot.status = "denied" THEN Raise("ActionDeniedError", snapshot, id, 0)
    ELSE Running

\* lines 333-340: the status the wait phase ended with decides between the
\* three failures and going on to the execute call (Running).
CheckStatus(snapshot, id) ==
    IF snapshot.status = "expired" THEN Raise("ActionExpiredError", NoSnapshot, id, 0)
    ELSE IF IsDenied(snapshot) THEN ActionDeniedError(id, snapshot)
    ELSE IF snapshot.status /= "approved"
        THEN Raise("VaultExecutionError", snapshot, id, 0)
    ELSE Running

\* lines 316-326: what follows the response of the create call
VaultCreated(resp, id) ==
    IF ~ok(resp) THEN _request(resp, id)
    ELSE IF IsDenied(resp.body) THEN ActionDeniedError(id, resp.body)
    ELSE IF EntersPolling(resp.body) THEN Running
    ELSE CheckStatus(resp.body, id)

\* lines 302-326: POST /actions with the vault metadata, the auto-deny
\* check, and either the start of the polling phase or the status check
execute_api_call_create(t) ==
    /\ pc[t] = "idle"
    /\ \E resp \in Responses, id \in inputs.ids[t], tmo \in inputs.timeouts,
          pi \in inputs.poll_intervals, a \in inputs.vault_args :
        /\ calls' = [calls EXCEPT ![t] =
                        Append(@, Call(SiteVaultCreate, PostActions, id, resp))]
        /\ args' = [args EXCEPT ![t] = a]
        /\ sent' = [sent EXCEPT ![t] = ExecuteApiCallPayload(a)]
        /\ timeout' = [timeout EXCEPT ![t] = tmo]
        /\ poll_interval' = [poll_interval EXCEPT ![t] = pi]
        /\ request_id' = [request_id EXCEPT ![t] =
                             IF ok(resp) /\ ~IsDenied(resp.body) THEN id ELSE NoId]
        /\ result' = [result EXCEPT ![t] = IF ok(resp) THEN resp.body ELSE NoSnapshot]
        /\ outcome' = [outcome EXCEPT ![t] = VaultCreated(resp, id)]
        /\ pc' = [pc EXCEPT ![t] =
                     IF VaultCreated(resp, id).kind /= "running" THEN "done"
                     ELSE IF EntersPolling(resp.body) THEN "vault_test"
                     ELSE "vault_execute"]
        /\ start' = [start EXCEPT ![t] =
                        IF ok(resp) /\ EntersPolling(resp.body) THEN now ELSE @]
    /\ op' = [op EXCEPT ![t] = "execute_api_call"]
    /\ UNCHANGED <<now, wake, timedOutAt>>
    /\ UNCHANGED <<fixed, facade>>

\* line 327 and, when the loop ends here, lines 333-340
execute_api_call_test(t) ==
    /\ pc[t] = "vault_test"
    /\ timedOutAt' = [timedOutAt EXCEPT ![t] =
                         IF WithinTimeout(t) THEN NotTimedOut ELSE Len(calls[t])]
    /\ outcome' = [outcome EXCEPT ![t] =
                      IF WithinTimeout(t) THEN Running
                      ELSE CheckStatus(result[t], request_id[t])]
    /\ pc' = [pc EXCEPT ![t] =
                 IF WithinTimeout(t) THEN "vault_fetch"
                 ELSE IF CheckStatus(result[t], request_id[t]).kind = "running"
                     THEN "vault_execute"
                 ELSE "done"]
    /\ UNCHANGED <<now, op, timeout, poll_interval, request_id, start, wake,
                   result, calls>>
    /\ UNCHANGED <<fixed, passed>>

\* lines 328-331 and, when the loop breaks, lines 333-340
VaultLoopBody(t, resp) ==
    IF ~ok(resp) THEN _request(resp, request_id[t])
    ELSE IF resp.body.status = Absent
        THEN Raise("KeyError", resp.body, request_id[t], 0)
    ELSE IF IsResolved(resp.body) THEN CheckStatus(resp.body, request_id[t])
    ELSE Running

execute_api_call_fetch(t) ==
    /\ pc[t] = "vault_fetch"
    /\ Len(CallsAt(t, SiteVaultLoop)) < MaxFetches
    /\ \E resp \in Responses :
        /\ calls' = [calls EXCEPT ![t] =
                        Append(@, Call(SiteVaultLoop, GetStatus, TargetId(t), resp))]
        /\ result' = [result EXCEPT ![t] = IF ok(resp) THEN resp.body ELSE @]
        /\ outcome' = [outcome EXCEPT ![t] = VaultLoopBody(t, resp)]
        /\ pc' = [pc EXCEPT ![t] =
                     IF VaultLoopBody(t, resp).kind /= "running" THEN "done"
                     ELSE IF ok(resp) /\ IsResolved(resp.body) THEN "vault_execute"
                     ELSE "vault_sleep"]
    /\ wake' = [wake EXCEPT ![t] = now + poll_interval[t]]
    /\ UNCHANGED <<now, op, timeout, poll_interval, request_id, start,
                   timedOutAt>>
    /\ UNCHANGED <<fixed, passed>>

\* line 331: time.sleep(poll_interval) returns
execute_api_call_sleep(t) ==
    /\ pc[t] = "vault_sleep"
    /\ now >= wake[t]
    /\ pc' = [pc EXCEPT ![t] = "vault_test"]
    /\ UNCHANGED <<now, op, timeout, poll_interval, request_id, start, wake,
                   result, outcome, timedOutAt, calls>>
    /\ UNCHANGED <<fixed, passed>>

\* line 343: return self._request("POST", f"/vault/execute/{request_id}")
execute_api_call_execute(t) ==
    /\ pc[t] = "vault_execute"
    /\ \E resp \in ExecuteResponses :
        /\ calls' = [calls EXCEPT ![t] =
                        Append(@, Call(SiteVaultExecute, PostExecute, TargetId(t), resp))]
        /\ outcome' = [outcome EXCEPT ![t] = _request(resp, request_id[t])]
    /\ pc' = [pc EXCEPT ![t] = "done"]
    /\ UNCHANGED <<now, op, timeout, poll_interval, request_id, start, wake,
                   result, timedOutAt>>
    /\ UNCHANGED <<fixed, passed>>

\* ------------------------------------------------------------- specification
Next ==
    \/ Tick
    \/ \E t \in Lifecycles :
        \/ request_action(t)
        \/ get_status(t)
        \/ wait_for_result_start(t)
        \/ wait_for_result_test(t)
        \/ wait_for_result_fetch(t)
        \/ wait_for_result_sleep(t)
        \/ wait_for_result_final(t)
        \/ execute_api_call_create(t)
        \/ execute_api_call_test(t)
        \/ execute_api_call_fetch(t)
        \/ execute_api_call_sleep(t)
        \/ execute_api_call_execute(t)

Spec == Init /\ [][Next]_vars

\* ------------------------------------------------------------- submissions
\* The submitting methods with every combination of their optional
\* arguments.  What a submission puts in its payload does not depend on
\* how the action is resolved later, so the polling that may follow is left
\* to Spec.
SubmitInputs ==
    [ids |-> [t \in Lifecycles |-> {"act_1"}], timeouts |-> {0},
     poll_intervals |-> {0}, request_args |-> RequestArgs,
     vault_args |-> VaultArgs]

InitSubmit == InitFor({1}, SubmitInputs)

NextSubmit ==
    \E t \in Lifecycles :
        \/ request_action(t)
        \/ convenience(t)
        \/ pay_request_payment(t)
        \/ execute_api_call_create(t)

SpecSubmit == InitSubmit /\ [][NextSubmit]_vars

\* ------------------------------------------------------------- two threads
\* Two threads on one client, each running wait_for_result or
\* execute_api_call for an action id of its own (as the background poller
\* of examples/quickstart_totp.py runs next to the main thread), steps
\* interleaved in every order.
ConcInputs ==
    [ids |-> [t \in Lifecycles |-> IF t = 1 THEN {"act_1"} ELSE {"act_2"}],
     timeouts |-> {1}, poll_intervals |-> {1}, request_args |-> {Defaults},
     vault_args |-> {VaultDefaults}]

InitConc == InitFor(Lifecycles, ConcInputs)

NextConc ==
    \/ Tick
    \/ \E t \in Lifecycles :
        \/ wait_for_result_start(t)
        \/ wait_for_result_test(t)
        \/ wait_for_result_fetch(t)
        \/ wait_for_result_sleep(t)
        \/ wait_for_result_final(t)
        \/ execute_api_call_create(t)
        \/ execute_api_call_test(t)
        \/ execute_api_call_fetch(t)
        \/ execute_api_call_sleep(t)
        \/ execute_api_call_execute(t)

SpecConc == InitConc /\ [][NextConc]_vars

\* ------------------------------------------------------------- termination
\* wait_for_result with positive timeout and poll interval, every fetch
\* answered, and a clock that keeps running.  Time passes at any point of
\* the method (latency) while a sleep begun now could still end within the
\* clock's range, and during a sleep until the sleep is over.
LiveInputs ==
    [ids |-> [t \in Lifecycles |-> {"act_1"}], timeouts |-> {1, 2},
     poll_intervals |-> {1, 2}, request_args |-> {Defaults},
     vault_args |-> {VaultDefaults}]

InitLive == InitFor({1}, LiveInputs)

TickLive ==
    /\ now < MaxClock
    /\ \/ /\ \E t \in Lifecycles : InMethod(t)
          /\ \A pi \in inputs.poll_intervals : now + pi < MaxClock
       \/ \E t \in Lifecycles : pc[t] = "wait_sleep" /\ now < wake[t]
    /\ now' = now + 1
    /\ UNCHANGED <<pc, op, timeout, poll_interval, request_id, start, wake,
                   result, outcome, timedOutAt, calls>>
    /\ UNCHANGED <<fixed, passed>>

NextLive ==
    \/ TickLive
    \/ \E t \in Lifecycles :
        \/ wait_for_result_start(t)
        \/ wait_for_result_test(t)
        \/ wait_for_result_fetch(t)
        \/ wait_for_result_sleep(t)
        \/ wait_for_result_final(t)

\* Every call the method makes returns and the thread keeps being
\* scheduled: a step that stays possible is eventually taken.
SpecLive == InitLive /\ [][NextLive]_vars /\ WF_vars(NextLive)

\* ------------------------------------------------------------- SynPayClient runs
\* The three methods of SynPayClient, each followed by the code of
\* SynAuthClient it forwards to.
PayInputs ==
    [ids |-> [t \in Lifecycles |-> Ids], timeouts |-> {0, 1, 2},
     poll_intervals |-> {0, 1}, request_args |-> {Defaults},
     vault_args |-> {VaultDefaults}]

InitPay == InitFor({1}, PayInputs)

NextPay ==
    \/ Tick
    \/ \E t \in Lifecycles :
        \/ pay_request_payment(t)
        \/ pay_get_status(t)
        \/ pay_wait_for_result(t)
        \/ wait_for_result_test(t)
        \/ wait_for_result_fetch(t)
        \/ wait_for_result_sleep(t)
        \/ wait_for_result_final(t)

SpecPay == InitPay /\ [][NextPay]_vars

\* ------------------------------------------------------------- framework adapters
\* examples/langchain_tool.py and examples/crewai_tool.py: a tool's _run
\* submits an action, waits for its result unless the submit response is
\* already resolved, and hands a JSON result (or an exception) to the agent
\* runtime.
Adapters == {"SynAuthApprovalTool", "RequestApprovalTool", "WYSIWYSApprovalTool"}
CatchesAll == {"SynAuthApprovalTool"}

\* poll_interval=2.0 of every adapter's wait_for_result call
AdapterPollInterval == 2

\* The `parameters` argument: a JSON text, a text that is not JSON, the
\* empty string, or left unset.
ValidJson(p) == p = "{k: v}"
RunArgs(cls) ==
    [action_type : {"custom"}, title : {"Deploy"},
     description : IF cls = "WYSIWYSApprovalTool" THEN {NotPassed} ELSE {"text"},
     risk_level : IF cls = "WYSIWYSApprovalTool" THEN {"high"} ELSE {"medium"},
     parameters : IF cls = "RequestApprovalTool" THEN {NotPassed}
                  ELSE inputs.parameters \ (IF cls = "WYSIWYSApprovalTool" THEN {None} ELSE {})]

\* What _run hands to the agent runtime: a JSON result with its `status`,
\* or an exception that leaves _run.
ToolRunning == [kind |-> "running", status |-> Absent, exc |-> "none"]
ToolReturn(status) == [kind |-> "return", status |-> status, exc |-> "none"]
ToolRaise(e) == [kind |-> "raise", status |-> Absent, exc |-> e]

\* The except clauses of _run, tried in order for an exception of class e
\* raised inside the try block.  RateLimitError is a SynAuthAPIError
\* (client.py line 42); only SynAuthApprovalTool._run ends with
\* `except Exception`.
Handle(cls, e) ==
    CASE e = "ActionDeniedError" -> ToolReturn("denied")
      [] e = "ActionExpiredError" -> ToolReturn("expired")
      [] e = "ApprovalTimeoutError" ->
            ToolReturn(IF cls = "SynAuthApprovalTool" THEN "timeout" ELSE "expired")
      [] e \in {"SynAuthAPIError", "RateLimitError"} -> ToolReturn("error")
      [] OTHER -> IF cls \in CatchesAll THEN ToolReturn("error") ELSE ToolRaise(e)

\* Faulty variant of NeedsWait: the submit response is not looked at and the
\* adapter always waits.
NeedsWait_always(snapshot) == TRUE

\* `if action["status"] != "pending": return ...`: the adapter goes on to
\* wait_for_result only after a 'pending' submit response
NeedsWait(snapshot) == snapshot.status = "pending"

\* The request_action call of SynAuthApprovalTool._run and
\* RequestApprovalTool._run
AdapterRequest(g) ==
    [Defaults EXCEPT !.action_type = g.action_type, !.title = g.title,
                     !.description = g.description, !.risk_level = g.risk_level]

\* SynAuthClient.wysiwys_action(action_type, params, title, risk_level): a
\* convenience wrapper that submits through request_action and returns the
\* created snapshot
wysiwys_action(g) ==
    [Defaults EXCEPT !.action_type = g.action_type, !.title = g.title,
                     !.risk_level = g.risk_level, !.metadata = g.parameters]

\* json.loads(parameters) raises JSONDecodeError: _run returns its error
\* result before any client call
InvalidParameters(t, cls, g) ==
    /\ op' = [op EXCEPT ![t] = "json.loads"]
    /\ pc' = [pc EXCEPT ![t] = "done"]
    /\ outcome' = [outcome EXCEPT ![t] = Raise("JSONDecodeError", NoSnapshot, NoId, 0)]
    /\ facade' = [facade EXCEPT ![t] = cls]
    /\ args' = [args EXCEPT ![t] = g]
    /\ UNCHANGED <<now, timeout, poll_interval, request_id, start, wake,
                   result, timedOutAt, calls, sent>>
    /\ UNCHANGED fixed

\* langchain_tool.py lines 162-200 (SynAuthApprovalTool._run): with truthy
\* `parameters` the WYSIWYS submission, otherwise request_action
SynAuthApprovalTool_run(t) ==
    /\ pc[t] = "idle"
    /\ \E g \in RunArgs("SynAuthApprovalTool") :
        IF Truthy(g.parameters) THEN
            IF ValidJson(g.parameters)
                THEN Submit(t, "SynAuthApprovalTool", "wysiwys_action", g, wysiwys_action(g))
            ELSE InvalidParameters(t, "SynAuthApprovalTool", g)
        ELSE Submit(t, "SynAuthApprovalTool", "request_action", g, AdapterRequest(g))

\* crewai_tool.py lines 120-133
RequestApprovalTool_run(t) ==
    /\ pc[t] = "idle"
    /\ \E g \in RunArgs("RequestApprovalTool") :
        Submit(t, "RequestApprovalTool", "request_action", g, AdapterRequest(g))

\* crewai_tool.py lines 201-219
WYSIWYSApprovalTool_run(t) ==
    /\ pc[t] = "idle"
    /\ \E g \in RunArgs("WYSIWYSApprovalTool") :
        IF ValidJson(g.parameters)
            THEN Submit(t, "WYSIWYSApprovalTool", "wysiwys_action", g, wysiwys_action(g))
        ELSE InvalidParameters(t, "WYSIWYSApprovalTool", g)

\* The submission of _run returned a snapshot to the adapter.
Submitted(t) ==
    /\ facade[t] \in Adapters
    /\ pc[t] = "done"
    /\ op[t] \in {"request_action", "wysiwys_action"}
    /\ outcome[t].kind = "return"

\* _run goes on: action["status"] is read (KeyError without the key) and
\* after a 'pending' response wait_for_result(action["id"],
\* timeout=self.timeout, poll_interval=2.0) is entered
adapter_wait_for_result(t) ==
    /\ Submitted(t)
    /\ outcome[t].value.status /= Absent
    /\ NeedsWait(outcome[t].value)
    /\ \E tmo \in inputs.timeouts :
        WaitStart(t, request_id[t], tmo, AdapterPollInterval)
    /\ UNCHANGED passed

\* What _run has handed to the runtime in this state.
RunResult(t) ==
    IF facade[t] \notin Adapters \/ pc[t] /= "done" THEN ToolRunning
    ELSE IF op[t] = "json.loads" THEN ToolReturn("error")
    ELSE IF outcome[t].kind = "raise" THEN Handle(facade[t], outcome[t].exc)
    ELSE IF outcome[t].value.status = Absent THEN Handle(facade[t], "KeyError")
    ELSE IF Submitted(t) /\ NeedsWait(outcome[t].value) THEN ToolRunning
    ELSE ToolReturn(outcome[t].value.status)

AdapterInputs ==
    [ids |-> [t \in Lifecycles |-> {"act_1"}], timeouts |-> Timeouts,
     poll_intervals |-> {AdapterPollInterval}, request_args |-> {Defaults},
     vault_args |-> {VaultDefaults},
     parameters |-> {None, "", "{k: v}", "{k:"}]

InitAdapter == InitFor({1}, AdapterInputs)

NextAdapter ==
    \/ Tick
    \/ \E t \in Lifecycles :
        \/ SynAuthApprovalTool_run(t)
        \/ RequestApprovalTool_run(t)
        \/ WYSIWYSApprovalTool_run(t)
        \/ adapter_wait_for_result(t)
        \/ wait_for_result_test(t)
        \/ wait_for_result_fetch(t)
        \/ wait_for_result_sleep(t)
        \/ wait_for_result_final(t)

SpecAdapter == InitAdapter /\ [][NextAdapter]_vars

\* ------------------------------------------------------------- content fingerprint
\* compute_content_hash(params): the digest of the canonical serialization
\* of a parameter mapping.  A mapping is a Python dict: its key/value
\* pairs in insertion order, each key once.
\* The keys of trade_params (agent_example.py lines 188-194) in sorted
\* order, and two of its values.
KeyNames == <<"price", "quantity", "side", "ticker", "total">>
ParamKeys == {KeyNames[i] : i \in 1..MaxParams}
ParamValues == {"10", "buy"}
Dicts ==
    {d \in UNION {[1..n -> ParamKeys \X ParamValues] : n \in 0..MaxParams} :
        \A i, j \in 1..Len(d) : d[i][1] = d[j][1] => i = j}
Items(d) == {d[i] : i \in 1..Len(d)}

\* The pairs of d with its keys in sorted order.
RECURSIVE SortedFrom(_, _)
SortedFrom(d, i) ==
    IF i > Len(KeyNames) THEN <<>>
    ELSE SelectSeq(d, LAMBDA kv : kv[1] = KeyNames[i]) \o SortedFrom(d, i + 1)
Canonical(d) == SortedFrom(d, 1)

\* The serialization: key and value of every pair, in the order given.
RECURSIVE Serialize(_)
Serialize(d) ==
    IF d = <<>> THEN <<>> ELSE <<Head(d)[1], Head(d)[2]>> \o Serialize(Tail(d))

\* A digest of a token sequence: a 16-bit polynomial hash over the tokens'
\* codes, which depends on the order of the tokens.
Tokens == KeyNames \o <<"10", "buy">>
Code(x) == CHOOSE i \in 1..Len(Tokens) : Tokens[i] = x
RECURSIVE DigestFrom(_, _)
DigestFrom(h, tokens) ==
    IF tokens = <<>> THEN h
    ELSE DigestFrom((h * 31 + Code(Head(tokens))) % 65536, Tail(tokens))
Digest(tokens) == DigestFrom(7, tokens)

\* Faulty variant of compute_content_hash: the pairs are serialized in
\* insertion order.
compute_content_hash_uncanonical(d) == Digest(Serialize(d))

\* The fingerprint: the digest of the serialization in canonical key order
compute_content_hash(d) == Digest(Serialize(Canonical(d)))

\* agent_example.py lines 206 and 293: compute_content_hash(trade_params),
\* once by each holder of the mapping
compute_content_hash_call(t) ==
    /\ pc[t] = "idle"
    /\ hashes[t] = <<>>
    /\ hashes' = [hashes EXCEPT ![t] = <<compute_content_hash(params[t])>>]
    /\ UNCHANGED <<now, pc, op, timeout, poll_interval, request_id, start, wake,
                   result, outcome, timedOutAt, calls, client, inputs, params>>
    /\ UNCHANGED passed

\* Two holders of one parameter mapping (the site that displays it before
\* submission and the site that verifies it afterwards), each with its own
\* insertion order.
InitHash ==
    \E d, e \in Dicts :
        /\ Items(d) = Items(e)
        /\ InitHolding(Lifecycles, FlowInputs, [t \in Lifecycles |-> IF t = 1 THEN d ELSE e])

NextHash == \E t \in Lifecycles : compute_content_hash_call(t)

SpecHash == InitHash /\ [][NextHash]_vars

\* ------------------------------------------------------------- observations
IsWait(t) == op[t] = "wait_for_result"
IsVault(t) == op[t] = "execute_api_call"
Done(t) == pc[t] = "done"
Last(seq) == seq[Len(seq)]

\* A call that was answered 2xx with a body that has a status.
HasStatus(c) == c.http = HttpOk /\ c.status /= Absent
AnsweredPending(c) == c.http = HttpOk /\ c.status = "pending"
AnsweredNonPending(c) == HasStatus(c) /\ c.status /= "pending"

\* ------------------------------------------------------------- C1
\* C1: in every run of wait_for_result every status fetch but the last
\* returned 'pending' (so the statuses fetched are zero or more 'pending'
\* followed by at most one non-pending one, and no fetch follows a
\* non-pending one), and once a fetch has returned a non-pending status the
\* method has returned exactly that snapshot.
C1_FirstNonPendingReturned ==
    \A t \in Lifecycles :
        IsWait(t) =>
            LET f == Fetches(t) IN
            /\ \A i \in 1..(Len(f) - 1) : AnsweredPending(f[i])
            /\ (Len(f) > 0 /\ AnsweredNonPending(Last(f))) =>
                    /\ Done(t)
                    /\ outcome[t] = Return(Snapshot(Last(f)), request_id[t])

\* C1 witness: two 'pending' fetches, then a fetch inside the loop that
\* returned 'denied', which was returned.
C1_Witness ==
    \E t \in Lifecycles :
        /\ IsWait(t) /\ Done(t)
        /\ Len(Fetches(t)) = 3
        /\ Last(Fetches(t)).site = SiteWaitLoop
        /\ outcome[t].kind = "return"
        /\ outcome[t].value.status = "denied"

FollowsScript(t, k) ==
    LET f == Fetches(t) IN
    \A i \in 1..Len(f) :
        /\ f[i].http = HttpOk
        /\ i <= k => f[i].status = "pending"
        /\ i = k + 1 => f[i].status \in Terminal

ReturnedAfter(t, n) ==
    /\ Len(Fetches(t)) = n
    /\ Fetches(t)[n].status \in Terminal
    /\ outcome[t] = Return(Snapshot(Fetches(t)[n]), request_id[t])

\* C3 as claimed: against such a backend, with poll_interval < timeout and
\* k * poll_interval < timeout, wait_for_result returns the terminal
\* snapshot after exactly k+1 status fetches.
C3_AsClaimed ==
    \A t \in Lifecycles : \A k \in 0..MaxFetches :
        ( /\ IsWait(t) /\ Done(t)
          /\ FollowsScript(t, k)
          /\ poll_interval[t] < timeout[t]
          /\ k * poll_interval[t] < timeout[t] )
        => ReturnedAfter(t, k + 1)

\* C3 amended: the same holds provided the time test of the loop passed
\* before each of the first k fetches (the clock may pass start + timeout
\* earlier than k * poll_interval suggests, since fetches and sleeps take as
\* long as they take); and in every case no fetch follows the terminal one.
C3_Amended ==
    \A t \in Lifecycles : \A k \in 0..MaxFetches :
        (IsWait(t) /\ FollowsScript(t, k)) =>
            /\ Len(Fetches(t)) <= k + 1
            /\ ( /\ Done(t)
                 /\ poll_interval[t] < timeout[t]
                 /\ k * poll_interval[t] < timeout[t]
                 /\ Len(CallsAt(t, SiteWaitLoop)) >= k )
               => ReturnedAfter(t, k + 1)

\* C3 witness: the spec's case, [pending, pending, approved] with
\* poll_interval 1 and timeout 3, returned after three fetches.
C3_Witness ==
    \E t \in Lifecycles :
        /\ IsWait(t) /\ Done(t)
        /\ FollowsScript(t, 2)
        /\ poll_interval[t] = 1 /\ timeout[t] = 3
        /\ Len(CallsAt(t, SiteWaitLoop)) >= 2
        /\ ReturnedAfter(t, 3)
        /\ outcome[t].value.status = "approved"

\* ------------------------------------------------------------- C4
\* C4: in execute_api_call a status fetch is issued only when the create
\* call was answered with status 'pending': a create response with any
\* other status, or none, is followed by zero status fetches.
C4_NoPollingUnlessPending ==
    \A t \in Lifecycles :
        (IsVault(t) /\ Fetches(t) /= <<>>) => AnsweredPending(calls[t][1])

\* C4 witness: the create call answered 'approved', the execute call
\* issued, no status fetch in between.
C4_Witness ==
    \E t \in Lifecycles :
        /\ IsVault(t) /\ Done(t)
        /\ calls[t][1].status = "approved"
        /\ Len(calls[t]) = 2
        /\ calls[t][2].path = PostExecute
        /\ Fetches(t) = <<>>

\* ------------------------------------------------------------- C5
\* request_action returned a snapshot with a non-pending status to t.
SubmittedNonPending(t) ==
    /\ Len(calls[t]) >= 1
    /\ calls[t][1].site = SiteSubmit
    /\ AnsweredNonPending(calls[t][1])

\* C5 as claimed: after request_action returned a non-pending status, a
\* following wait_for_result on that id issues no status fetch.
C5_AsClaimed ==
    \A t \in Lifecycles :
        (SubmittedNonPending(t) /\ IsWait(t)) => Fetches(t) = <<>>

\* C5 amended: such a wait_for_result has issued at least one status fetch
\* when it ends, all on the id request_action returned, and exactly one,
\* whose snapshot it returns, whenever that first fetch is answered with a
\* non-pending status.
C5_Amended ==
    \A t \in Lifecycles :
        (SubmittedNonPending(t) /\ IsWait(t)) =>
            LET f == Fetches(t) IN
            /\ Done(t) => Len(f) >= 1
            /\ \A i \in 1..Len(f) : f[i].id = calls[t][1].id
            /\ (Len(f) >= 1 /\ AnsweredNonPending(f[1])) =>
                    /\ Len(f) = 1
                    /\ Done(t)
                    /\ outcome[t] = Return(Snapshot(f[1]), calls[t][1].id)

\* C5 witness: request_action returned 'approved', wait_for_result fetched
\* once and returned 'approved'.
C5_Witness ==
    \E t \in Lifecycles :
        /\ SubmittedNonPending(t) /\ IsWait(t) /\ Done(t)
        /\ calls[t][1].status = "approved"
        /\ Len(Fetches(t)) = 1
        /\ outcome[t].kind = "return"
        /\ outcome[t].value.status = "approved"

\* ------------------------------------------------------------- C6
\* C6: when the create call of execute_api_call is answered 'denied', the
\* method has raised ActionDeniedError with the id and deny_reason of that
\* response, and the create call is the only network call it made.
C6_ImmediateDenial ==
    \A t \in Lifecycles :
        ( /\ IsVault(t)
          /\ calls[t][1].http = HttpOk
          /\ calls[t][1].status = "denied" )
        => /\ Done(t)
           /\ outcome[t] =
                  Raise("ActionDeniedError", Snapshot(calls[t][1]), calls[t][1].id, 0)
           /\ Len(calls[t]) = 1

\* C6 witness: the create call answered 'denied' with reason "policy".
C6_Witness ==
    \E t \in Lifecycles :
        /\ IsVault(t) /\ Done(t)
        /\ calls[t][1].status = "denied"
        /\ calls[t][1].deny_reason = "policy"
        /\ outcome[t].exc = "ActionDeniedError"
        /\ outcome[t].value.deny_reason = "policy"

\* ------------------------------------------------------------- C7
\* C7: execute_api_call issues POST /vault/execute/{id} at most once, as
\* its last network call, right after a create response or status fetch
\* answered 'approved', for the id of the created action; a run that raised
\* one of the failures of lines 320-340 issued no execute call.
C7_ExecuteOnceAfterApproval ==
    \A t \in Lifecycles :
        IsVault(t) =>
            LET n == Len(calls[t]) IN
            /\ Len(CallsAt(t, SiteVaultExecute)) <= 1
            /\ \A i \in 1..n :
                calls[t][i].path = PostExecute =>
                    /\ i = n /\ i > 1
                    /\ Done(t)
                    /\ calls[t][i - 1].http = HttpOk
                    /\ calls[t][i - 1].status = "approved"
                    /\ calls[t][i].id = calls[t][1].id
            /\ outcome[t].exc \in {"ActionDeniedError", "ActionExpiredError",
                                   "VaultExecutionError", "KeyError"}
                    => CallsAt(t, SiteVaultExecute) = <<>>

\* C7 witness: created 'pending', fetched 'pending' and then 'approved',
\* executed, and the execute response returned.
C7_Witness ==
    \E t \in Lifecycles :
        /\ IsVault(t) /\ Done(t)
        /\ Len(Fetches(t)) = 2
        /\ Len(CallsAt(t, SiteVaultExecute)) = 1
        /\ outcome[t].kind = "return"

\* ------------------------------------------------------------- C8
\* C8: in execute_api_call a create response or status fetch answered
\* 'denied' is the last network call, and the method has raised
\* ActionDeniedError with the deny_reason of that very snapshot; one
\* answered 'expired' is the last network call, and the method has raised
\* ActionExpiredError; so no execute call follows either.
C8_FailureMapping ==
    \A t \in Lifecycles :
        IsVault(t) =>
            \A i \in 1..Len(calls[t]) :
                LET c == calls[t][i] IN
                /\ (c.http = HttpOk /\ c.status = "denied") =>
                        /\ i = Len(calls[t])
                        /\ Done(t)
                        /\ outcome[t] =
                               Raise("ActionDeniedError", Snapshot(c), calls[t][1].id, 0)
                /\ (c.http = HttpOk /\ c.status = "expired") =>
                        /\ i = Len(calls[t])
                        /\ Done(t)
                        /\ outcome[t] =
                               Raise("ActionExpiredError", NoSnapshot, calls[t][1].id, 0)

\* C8 witness: a denial with reason "human" observed by the second status
\* fetch and raised with that reason.
C8_Witness ==
    \E t \in Lifecycles :
        /\ IsVault(t) /\ Done(t)
        /\ Len(Fetches(t)) = 2
        /\ Last(calls[t]).status = "denied"
        /\ Last(calls[t]).deny_reason = "human"
        /\ outcome[t].exc = "ActionDeniedError"
        /\ outcome[t].value.deny_reason = "human"

\* ------------------------------------------------------------- C9
\* The polling of lifecycle t is over: the method ended or went on to the
\* execute call.
PollingOver(t) == pc[t] \in {"done", "vault_execute"}

\* What wait_for_result does when its loop ends by the time test: one more
\* status fetch is issued after that test, and its snapshot is the one the
\* polling ends with.
FinalCheckMade(t, ending) ==
    \E i \in (timedOutAt[t] + 1)..Len(calls[t]) :
        /\ calls[t][i].path = GetStatus
        /\ calls[t][i].http = HttpOk => ending = Snapshot(calls[t][i])

\* wait_for_result itself polls so: the reference C9 compares with.
C9_WaitForResultFinalCheck ==
    \A t \in Lifecycles :
        (IsWait(t) /\ Done(t) /\ timedOutAt[t] /= NotTimedOut) =>
            FinalCheckMade(t, outcome[t].value)

\* C9 as claimed: the polling phase of execute_api_call issues the status
\* fetches wait_for_result would, the final check after the timeout
\* included, and ends with the snapshot wait_for_result would return.
C9_PollsAsWaitForResult ==
    \A t \in Lifecycles :
        (IsVault(t) /\ PollingOver(t) /\ timedOutAt[t] /= NotTimedOut) =>
            FinalCheckMade(t, result[t])

\* ------------------------------------------------------------- C10
\* The status execute_api_call saw last: that of the last create response
\* or status fetch answered 2xx.
Observations(t) ==
    SelectSeq(calls[t], LAMBDA c : c.path /= PostExecute /\ c.http = HttpOk)

\* C10 as claimed: VaultExecutionError is never raised while the last
\* observed status of the action is 'pending'.
C10_NoVaultErrorWhilePending ==
    \A t \in Lifecycles :
        (IsVault(t) /\ outcome[t].exc = "VaultExecutionError") =>
            Last(Observations(t)).status /= "pending"

\* ------------------------------------------------------------- C11
\* The detail the spec gives an API failure: the `detail` field of a JSON
\* object body that has one, else the raw response text.
DocumentedDetail(c) ==
    IF c.raw.shape = "object" /\ c.raw.detail /= NoDetail THEN c.raw.detail
    ELSE c.raw.text

\* The failure the spec gives a non-2xx response.
SurfacesAsAPIError(c, out) ==
    /\ out.kind = "raise"
    /\ out.status_code = c.http
    /\ IF c.http = HttpRateLimited
          THEN out.exc = "RateLimitError"
          ELSE out.exc = "SynAuthAPIError" /\ out.detail = DocumentedDetail(c)

\* C11 as claimed: in execute_api_call a non-2xx response to the create
\* call, to a status fetch or to the execute call is the last network call
\* of the invocation and has surfaced as SynAuthAPIError (RateLimitError
\* for 429) with the response's status code and detail.
C11_HttpFailureSurfaces ==
    \A t \in Lifecycles :
        IsVault(t) =>
            \A i \in 1..Len(calls[t]) :
                calls[t][i].http /= HttpOk =>
                    /\ i = Len(calls[t])
                    /\ Done(t)
                    /\ SurfacesAsAPIError(calls[t][i], outcome[t])

\* ------------------------------------------------------------- C12
\* get_status raised SynAuthAPIError or RateLimitError for this fetch.
FetchFailed(c) ==
    _request(RespOf(c), c.id).exc \in {"SynAuthAPIError", "RateLimitError"}

\* C12: in wait_for_result a status fetch for which get_status raised
\* SynAuthAPIError or RateLimitError is the last network call (no retry, no
\* further fetch, no final check after a failure in the loop), and the
\* method has ended raising exactly that failure.
C12_FetchFailurePropagates ==
    \A t \in Lifecycles :
        IsWait(t) =>
            \A i \in 1..Len(calls[t]) :
                (calls[t][i].path = GetStatus /\ FetchFailed(calls[t][i])) =>
                    /\ i = Len(calls[t])
                    /\ Done(t)
                    /\ outcome[t] = _request(RespOf(calls[t][i]), calls[t][i].id)
                    /\ outcome[t].status_code = calls[t][i].http

\* C12 witness: a 'pending' fetch, then a fetch in the loop answered 429,
\* raised as RateLimitError with no final check.
C12_Witness ==
    \E t \in Lifecycles :
        /\ IsWait(t) /\ Done(t)
        /\ Len(Fetches(t)) = 2
        /\ Last(calls[t]).site = SiteWaitLoop
        /\ Last(calls[t]).http = HttpRateLimited
        /\ outcome[t].exc = "RateLimitError"
        /\ CallsAt(t, SiteWaitFinal) = <<>>

\* ------------------------------------------------------------- C13
IsGetStatus(t) == op[t] = "get_status"
Is2xx(c) == c.http \in 200..299

\* C13 as claimed: _request, here reached through get_status, raises
\* RateLimitError with status_code 429 for HTTP 429, raises for any other
\* non-2xx response SynAuthAPIError with the response's status code and,
\* as detail, the `detail` field of a JSON object body that has one, else
\* the raw response text, and raises nothing for a 2xx response.
C13_RequestMapsByStatus ==
    \A t \in Lifecycles :
        (IsGetStatus(t) /\ Done(t)) =>
            LET c == Last(calls[t]) IN
                IF Is2xx(c) THEN outcome[t].kind = "return"
                ELSE SurfacesAsAPIError(c, outcome[t])

\* ------------------------------------------------------------- C14
\* C14 as claimed: whatever the status code and the body shape of the
\* response, _request returns the parsed body or raises SynAuthAPIError or
\* RateLimitError, and no exception of another type.
C14_ClassificationTotal ==
    \A t \in Lifecycles :
        (IsGetStatus(t) /\ Done(t)) =>
            \/ outcome[t].kind = "return"
            \/ outcome[t].exc \in {"SynAuthAPIError", "RateLimitError"}

\* ------------------------------------------------------------- C19
\* C19: every step in which a caller runs get_status issues exactly one
\* network call, a GET /actions/{id} from line 172 for the id it was given,
\* returns or raises what _request makes of the response to that very call
\* (not of an earlier one), and changes neither an attribute of the client
\* nor anything else: clock, arguments, payloads and locals of the caller.
C19_GetStatusPureRead ==
    [][\A t \in Lifecycles :
        (op'[t] = "get_status" /\ (op[t] /= "get_status" \/ calls'[t] /= calls[t])) =>
            /\ Len(calls'[t]) = Len(calls[t]) + 1
            /\ LET c == calls'[t][Len(calls'[t])] IN
                /\ calls'[t] = Append(calls[t], c)
                /\ c.site = SiteGetStatus /\ c.path = GetStatus
                /\ c.id = request_id'[t]
                /\ outcome'[t] = _request(RespOf(c), c.id)
            /\ client' = client
            /\ UNCHANGED <<now, timeout, poll_interval, start, wake, result,
                           timedOutAt, inputs, passed>>]_vars

\* C19 witness: two successive calls on the same id, the first answered
\* 'pending' and the second 'approved', the second returning 'approved'.
C19_Witness ==
    \E t \in Lifecycles :
        /\ IsGetStatus(t) /\ Done(t)
        /\ Len(calls[t]) = 2
        /\ calls[t][1].id = calls[t][2].id
        /\ calls[t][1].http = HttpOk /\ calls[t][1].status = "pending"
        /\ calls[t][2].http = HttpOk /\ calls[t][2].status = "approved"
        /\ outcome[t].kind = "return"
        /\ outcome[t].value.status = "approved"

\* ------------------------------------------------------------- C15
\* The lifecycle posted a payload.
Posted(t) == \E i \in 1..Len(calls[t]) : calls[t][i].path = PostActions
OmittableKeys == {"description", "amount", "recipient", "metadata", "callback_url"}

\* C15: in the payload request_action posted, the key of each of
\* description, amount, recipient, metadata and callback_url that the
\* caller did not supply is absent, no such key is present with a null
\* value, and action_type, title, risk_level, reversible and
\* expires_in_seconds are present.
C15_OmittedFieldsAbsent ==
    \A t \in Lifecycles :
        (op[t] = "request_action" /\ Posted(t)) =>
            /\ \A k \in OmittableKeys :
                /\ args[t][k] = None => sent[t][k] = Absent
                /\ sent[t][k] /= Null
            /\ \A k \in RequiredKeys : sent[t][k] \notin {Absent, Null}

\* C15 witness: a submission with an amount and nothing else optional,
\* posted with amount and without the four other keys.
C15_Witness ==
    \E t \in Lifecycles :
        /\ op[t] = "request_action" /\ Posted(t)
        /\ args[t].amount = "25"
        /\ \A k \in OmittableKeys \ {"amount"} : args[t][k] = None
        /\ sent[t]["amount"] = "25"
        /\ \A k \in OmittableKeys \ {"amount"} : sent[t][k] = Absent

\* ------------------------------------------------------------- C16
\* C16 as claimed: no payload posted to /actions, by request_action, by a
\* convenience method or by the create call of execute_api_call, has a key,
\* in the body or in its metadata mapping, whose value is null.  (Every
\* argument here is either left unset or given a non-null value, so a null
\* in a payload can only stand for an unset argument.)
C16_NoNullForUnset ==
    \A t \in Lifecycles :
        Posted(t) => \A k \in Keys : sent[t][k] /= Null

\* ------------------------------------------------------------- C17
\* The table of the claim.
Category(h) ==
    CASE h = "request_email" -> "communication"
      [] h = "request_booking" -> "scheduling"
      [] h \in {"request_purchase", "request_payment"} -> "purchase"
      [] h = "request_post" -> "social"
      [] h = "request_data_access" -> "data_access"
      [] h = "request_contract" -> "legal"
DefaultRisk(h) ==
    CASE h \in {"request_email", "request_booking"} -> "low"
      [] h \in {"request_purchase", "request_payment", "request_post"} -> "medium"
      [] h = "request_data_access" -> "high"
      [] h = "request_contract" -> "critical"
\* The risk_level the caller passed, if any.
RiskOverride(t) ==
    IF op[t] = "request_payment" THEN NotPassed ELSE args[t].kwargs.risk_level

\* C17: whatever else the caller passes, the payload a convenience method
\* (or SynPayClient.request_payment) posted has the method's own
\* action_type, the risk_level the caller passed or else the method's
\* default, and, for request_contract, reversible = false; a call that
\* passes action_type to a convenience method, or reversible to
\* request_contract, ends in a TypeError and posts nothing.
C17_HelperDefaults ==
    \A t \in Lifecycles :
        /\ (op[t] \in Helpers \cup {"request_payment"} /\ Posted(t)) =>
            /\ sent[t]["action_type"] = Category(op[t])
            /\ sent[t]["risk_level"] =
                  IF RiskOverride(t) /= NotPassed THEN RiskOverride(t)
                  ELSE DefaultRisk(op[t])
            /\ op[t] = "request_contract" => sent[t]["reversible"] = "false"
        /\ (/\ op[t] \in Helpers
            /\ \/ args[t].kwargs.action_type /= NotPassed
               \/ op[t] = "request_contract" /\ args[t].kwargs.reversible /= NotPassed) =>
            /\ ~Posted(t)
            /\ outcome[t].exc = "TypeError"

\* C17 witness: a request_contract posted with an overridden risk level is
\* still legal and irreversible.
C17_Witness ==
    \E t \in Lifecycles :
        /\ op[t] = "request_contract" /\ Posted(t)
        /\ args[t].kwargs.risk_level = "high"
        /\ sent[t]["risk_level"] = "high"
        /\ sent[t]["action_type"] = "legal"
        /\ sent[t]["reversible"] = "false"

\* ------------------------------------------------------------- C18
ViaSynPay(t) == facade[t] = "SynPayClient"

\* What SynAuthClient.wait_for_result makes of the fetches logged for t:
\* the result of its final fetch when the time test ended the loop, else
\* what the loop body did with the last fetch.
WaitOutcome(t) ==
    IF timedOutAt[t] /= NotTimedOut
        THEN _request(RespOf(Last(calls[t])), request_id[t])
    ELSE WaitLoopBody(t, RespOf(Last(calls[t])))

\* C18: a method called on SynPayClient runs the SynAuthClient method of
\* the same name with the arguments it was given, and adds nothing.
\* wait_for_result polls for the given id with the given timeout and poll
\* interval, every network call is one of SynAuthClient.wait_for_result's
\* two fetch sites, and it ends as SynAuthClient.wait_for_result ends on
\* those fetches; get_status makes line 172's GET for the given id and
\* returns or raises what _request makes of it; request_payment makes one
\* POST /actions whose payload is the one request_purchase builds from the
\* same amount, merchant, description, currency and metadata.
C18_SynPayForwards ==
    \A t \in Lifecycles :
        ViaSynPay(t) =>
            /\ IsWait(t) =>
                /\ request_id[t] = args[t].request_id
                /\ timeout[t] = args[t].timeout
                /\ poll_interval[t] = args[t].poll_interval
                /\ \A i \in 1..Len(calls[t]) :
                    /\ calls[t][i].site \in {SiteWaitLoop, SiteWaitFinal}
                    /\ calls[t][i].id = args[t].request_id
                /\ Done(t) => outcome[t] = WaitOutcome(t)
            /\ IsGetStatus(t) =>
                /\ Last(calls[t]).site = SiteGetStatus
                /\ Last(calls[t]).id = args[t].request_id
                /\ outcome[t] = _request(RespOf(Last(calls[t])), args[t].request_id)
            /\ op[t] = "request_payment" =>
                /\ Len(calls[t]) = 1
                /\ calls[t][1].site = SiteSubmit
                /\ outcome[t] = _request(RespOf(calls[t][1]), calls[t][1].id)
                /\ sent[t] = RequestActionPayload(Bind(request_purchase(
                      [description |-> args[t].description,
                       amount |-> args[t].amount, party |-> args[t].merchant],
                      [NoKwargs EXCEPT !.currency = args[t].currency,
                                       !.metadata = args[t].metadata])))

\* C18 witness: SynPayClient.wait_for_result(id, timeout=2, poll_interval=1)
\* that saw 'pending' and then returned 'approved' from its second fetch.
C18_Witness ==
    \E t \in Lifecycles :
        /\ ViaSynPay(t) /\ IsWait(t) /\ Done(t)
        /\ args[t].timeout = 2 /\ args[t].poll_interval = 1
        /\ Len(calls[t]) = 2
        /\ calls[t][1].status = "pending"
        /\ outcome[t].kind = "return"
        /\ outcome[t].value.status = "approved"

\* ------------------------------------------------------------- C20
\* What execute_api_call makes of the calls logged for t.
VaultOutcome(t) ==
    LET c == Last(calls[t]) IN
        IF c.site = SiteVaultExecute THEN _request(RespOf(c), c.id)
        ELSE IF c.site = SiteVaultCreate
            THEN IF VaultCreated(RespOf(c), c.id).kind /= "running"
                    THEN VaultCreated(RespOf(c), c.id)
                 ELSE CheckStatus(Snapshot(c), c.id)
        ELSE IF VaultLoopBody(t, RespOf(c)).kind /= "running"
            THEN VaultLoopBody(t, RespOf(c))
        ELSE CheckStatus(Snapshot(c), c.id)

\* C20: with two lifecycles interleaved on one client, each for an action
\* id of its own, every status fetch and execute call of a lifecycle is for
\* that lifecycle's id, the id and snapshot a lifecycle ends with are its
\* own, and what it returns or raises is what its method makes of the
\* responses to its own calls, whatever the other lifecycle did meanwhile.
C20_LifecyclesIndependent ==
    \A t \in Lifecycles :
        (IsWait(t) \/ IsVault(t)) =>
            /\ \A i \in 1..Len(calls[t]) : calls[t][i].id \in inputs.ids[t]
            /\ request_id[t] \in inputs.ids[t] \cup {NoId}
            /\ Done(t) =>
                /\ outcome[t].request_id \in inputs.ids[t] \cup {NoId}
                /\ outcome[t] = IF IsWait(t) THEN WaitOutcome(t) ELSE VaultOutcome(t)
            /\ client = Client

\* C20 witness: both lifecycles are inside their polling loops at once,
\* wait_for_result on act_1 and execute_api_call on act_2, each having
\* fetched the status of its own action and got a different answer path:
\* the first has timed out and is about to make its final fetch, the second
\* sleeps between fetches.
C20_Witness ==
    /\ IsWait(1) /\ pc[1] = "wait_final"
    /\ IsVault(2) /\ pc[2] = "vault_sleep"
    /\ Len(Fetches(1)) >= 1 /\ Len(Fetches(2)) >= 1
    /\ \A i \in 1..Len(calls[1]) : calls[1][i].id = "act_1"
    /\ \A i \in 1..Len(calls[2]) : calls[2][i].id = "act_2"

\* ------------------------------------------------------------- C25
\* C25 as claimed: in the payload request_action posted, each of
\* description, amount, recipient, metadata and callback_url that the
\* caller provided is present, empty or zero values included, and a key is
\* absent only when the caller did not provide the argument.
C25_PresenceNotEmptiness ==
    \A t \in Lifecycles :
        (op[t] = "request_action" /\ Posted(t)) =>
            \A k \in OmittableKeys :
                args[t][k] /= None <=> sent[t][k] /= Absent

\* ------------------------------------------------------------- C30
\* C30: in the payload request_action posted, currency is present exactly
\* when amount is; with an amount (0 included) the currency sent is the
\* caller's, 'USD' when the caller passed none, and without an amount no
\* currency is sent, whatever the caller passed.
C30_CurrencyIffAmount ==
    \A t \in Lifecycles :
        (op[t] = "request_action" /\ Posted(t)) =>
            /\ sent[t]["currency"] /= Absent <=> sent[t]["amount"] /= Absent
            /\ args[t].amount /= None =>
                /\ sent[t]["amount"] = args[t].amount
                /\ sent[t]["currency"] = args[t].currency
                /\ sent[t]["currency"] \in {"USD", "EUR"}
            /\ args[t].amount = None => sent[t]["currency"] = Absent

\* C30 witness: amount 0 posted with the default currency.  (A currency
\* passed without an amount, and not sent, is the case the faulty variant
\* Included_currencyWhenPassed gets wrong.)
C30_Witness ==
    \E t \in Lifecycles :
        /\ op[t] = "request_action" /\ Posted(t)
        /\ args[t].amount = "0" /\ args[t].currency = Defaults.currency
        /\ sent[t]["amount"] = "0" /\ sent[t]["currency"] = "USD"

\* ------------------------------------------------------------- C26
\* C26: the snapshot wait_for_result returned is that of the last status
\* fetch it made; when its status is 'pending' that fetch is the one final
\* fetch of line 187, made after the time test failed; so when the last
\* fetch was answered with a non-pending status the status returned is not
\* 'pending'.
C26_ReturnsLastFetch ==
    \A t \in Lifecycles :
        (IsWait(t) /\ Done(t) /\ outcome[t].kind = "return") =>
            LET f == Fetches(t) IN
            /\ Len(f) >= 1
            /\ Last(calls[t]) = Last(f)
            /\ outcome[t].value = Snapshot(Last(f))
            /\ outcome[t].value.status = "pending" =>
                /\ Last(f).site = SiteWaitFinal
                /\ Len(CallsAt(t, SiteWaitFinal)) = 1
                /\ timedOutAt[t] /= NotTimedOut
            /\ AnsweredNonPending(Last(f)) => outcome[t].value.status /= "pending"

\* C26 witness: 'pending' returned from the final fetch after a loop fetch
\* that also saw 'pending'.
C26_Witness ==
    \E t \in Lifecycles :
        /\ IsWait(t) /\ Done(t) /\ outcome[t].kind = "return"
        /\ outcome[t].value.status = "pending"
        /\ Len(CallsAt(t, SiteWaitLoop)) >= 1
        /\ Last(calls[t]).site = SiteWaitFinal

\* ------------------------------------------------------------- C28
\* C28: with timeout <= 0 wait_for_result never enters the loop and never
\* sleeps, makes exactly one status fetch, the one of line 187, and ends
\* with what that fetch gave, whatever the status; with timeout > 0 it has
\* made at least one status fetch when it returns.
C28_NonPositiveTimeout ==
    \A t \in Lifecycles :
        IsWait(t) =>
            /\ timeout[t] <= 0 =>
                /\ pc[t] \in {"wait_test", "wait_final", "done"}
                /\ CallsAt(t, SiteWaitLoop) = <<>>
                /\ wake[t] = 0
                /\ Done(t) =>
                    /\ Len(Fetches(t)) = 1
                    /\ Last(calls[t]).site = SiteWaitFinal
                    /\ outcome[t] = _request(RespOf(Last(calls[t])), request_id[t])
                    /\ Last(calls[t]).http = HttpOk =>
                          outcome[t] = Return(Snapshot(Last(calls[t])), request_id[t])
            /\ (timeout[t] > 0 /\ Done(t) /\ outcome[t].kind = "return") =>
                Len(Fetches(t)) >= 1

\* C28 witness: timeout 0, one fetch answered 'approved' at line 187,
\* returned.
C28_Witness ==
    \E t \in Lifecycles :
        /\ IsWait(t) /\ Done(t) /\ timeout[t] = 0
        /\ Len(Fetches(t)) = 1
        /\ outcome[t].kind = "return"
        /\ outcome[t].value.status = "approved"

\* ------------------------------------------------------------- C29
\* A response without a status, or with one outside the four known ones.
UnexpectedStatus(c) ==
    c.http = HttpOk /\ c.status \notin {"pending", "approved", "denied", "expired"}

\* C29 as claimed: in execute_api_call a create response or a status fetch
\* answered without a status, or with a status outside {pending, approved,
\* denied, expired}, is the last network call (no further fetch, no execute
\* call) and the method has raised VaultExecutionError naming that status.
C29_UnexpectedStatusFails ==
    \A t \in Lifecycles :
        IsVault(t) =>
            \A i \in 1..Len(calls[t]) :
                (calls[t][i].path /= PostExecute /\ UnexpectedStatus(calls[t][i])) =>
                    /\ i = Len(calls[t])
                    /\ Done(t)
                    /\ outcome[t].exc = "VaultExecutionError"
                    /\ outcome[t].value.status = calls[t][i].status

\* ------------------------------------------------------------- C27
\* ceil(a / b) for b > 0
Ceil(a, b) == (a + b - 1) \div b

\* C27: with timeout > 0 and poll_interval > 0, whatever the backend
\* answers and however long fetches and sleeps take, wait_for_result never
\* makes more than ceil(timeout / poll_interval) + 1 status fetches, and it
\* ends.
C27_BoundedFetches ==
    /\ [](\A t \in Lifecycles :
            (IsWait(t) /\ timeout[t] > 0 /\ poll_interval[t] > 0) =>
                Len(Fetches(t)) <= Ceil(timeout[t], poll_interval[t]) + 1)
    /\ \A t \in Lifecycles : IsWait(t) ~> Done(t)

\* C27 witness: timeout 2, poll interval 1: two 'pending' fetches in the
\* loop and the final one, three in all, which is the bound.
C27_Witness ==
    \E t \in Lifecycles :
        /\ IsWait(t) /\ Done(t)
        /\ timeout[t] = 2 /\ poll_interval[t] = 1
        /\ Len(Fetches(t)) = Ceil(timeout[t], poll_interval[t]) + 1
        /\ Len(CallsAt(t, SiteWaitLoop)) = 2

\* ------------------------------------------------------------- C23
\* C23: at every adapter submission point (request_action in
\* SynAuthApprovalTool._run and RequestApprovalTool._run, wysiwys_action in
\* SynAuthApprovalTool._run and WYSIWYSApprovalTool._run) a submit response
\* with a status other than 'pending' makes _run return that status with
\* the submission as its only network call (no status fetch, no
\* wait_for_result), and wait_for_result runs only after a submit response
\* with status 'pending'.
C23_ResolvedAtSubmitReturns ==
    \A t \in Lifecycles :
        (facade[t] \in Adapters /\ calls[t] /= <<>>) =>
            /\ calls[t][1].path = PostActions
            /\ AnsweredNonPending(calls[t][1]) =>
                /\ Len(calls[t]) = 1
                /\ Fetches(t) = <<>>
                /\ op[t] /= "wait_for_result"
                /\ RunResult(t) = ToolReturn(calls[t][1].status)
            /\ (op[t] = "wait_for_result" \/ Fetches(t) /= <<>>) =>
                AnsweredPending(calls[t][1])

\* The WYSIWYS tool's submission was answered 'approved' and _run returned
\* it at once.
C23_Witness ==
    /\ facade[1] = "WYSIWYSApprovalTool"
    /\ op[1] = "wysiwys_action"
    /\ Len(calls[1]) = 1
    /\ calls[1][1].http = HttpOk
    /\ calls[1][1].status = "approved"
    /\ RunResult(1) = ToolReturn("approved")

\* ------------------------------------------------------------- C21
\* C21: against a backend that answers with documented statuses only,
\* every result an adapter returns has a status among approved, denied,
\* expired, timeout and error; when the adapter's wait timed out and the
\* final fetch was answered 'pending', the result's status is 'timeout',
\* never 'pending'.
AdapterStatuses == {"approved", "denied", "expired", "timeout", "error"}
DocumentedAnswers(t) ==
    \A i \in 1..Len(calls[t]) :
        calls[t][i].status \in {"pending"} \cup Terminal \cup {Absent}
WaitTimedOutPending(t) ==
    /\ op[t] = "wait_for_result"
    /\ pc[t] = "done"
    /\ timedOutAt[t] /= NotTimedOut
    /\ AnsweredPending(Last(calls[t]))
C21_AdapterStatusVocabulary ==
    \A t \in Lifecycles :
        (RunResult(t).kind = "return" /\ DocumentedAnswers(t)) =>
            /\ RunResult(t).status \in AdapterStatuses
            /\ WaitTimedOutPending(t) => RunResult(t).status = "timeout"

\* ------------------------------------------------------------- C22
\* C22: no exception leaves an adapter's _run: whatever the client calls
\* made inside _run return or raise, _run returns a JSON result.
C22_AdaptersNeverRaise ==
    \A t \in Lifecycles : RunResult(t).kind /= "raise"

\* ------------------------------------------------------------- C24
\* C24: compute_content_hash gives one value for a parameter mapping
\* whatever the insertion order of its keys: two holders of the same
\* key/value pairs (the site that computes the hash before submission and
\* the site that recomputes it afterwards), each with its own insertion
\* order, compute equal hashes.
C24_FingerprintOrderIndependent ==
    \A t, u \in Lifecycles :
        (hashes[t] /= <<>> /\ hashes[u] /= <<>> /\ Items(params[t]) = Items(params[u]))
            => hashes[t][1] = hashes[u][1]

\* Both holders computed the hash of a mapping of at least two keys that
\* they built in different insertion orders.
C24_Witness ==
    /\ hashes[1] /= <<>>
    /\ hashes[2] /= <<>>
    /\ Len(params[1]) >= 2
    /\ params[1] /= params[2]
    /\ Items(params[1]) = Items(params[2])

====
